---- MODULE Spec2Model ----
(***************************************************************************)
(* A model of the generic A* search of src/src/astar.rs, of the binary-heap *)
(* open list of src/src/simpleopen.rs and of the vector closed list of      *)
(* src/src/simpleclosed.rs, as they are driven by src/src/main.rs.          *)
(***************************************************************************)
EXTENDS Integers, Sequences, FiniteSets, Bags, TLC

\* ------------------------------------------------------------------ bounds
\* Node indices of the enumerated graphs are 0 .. NumNodes-1.
NumNodes == 3
\* The enumerated graphs have at most MaxEdges directed edges.
MaxEdges == 3
\* Edge costs of the enumerated graphs are 0 .. MaxCost.
MaxCost == 1
\* Heuristic values of the enumerated heuristics are 0 .. MaxHeuristic.
MaxHeuristic == 2
\* The open-list exercise holds at most MaxOpen items in the open list, of
\* priorities 0 .. MaxPriority.
MaxOpen == 5
MaxPriority == 3
\* The neighbour-set exercise collects at most MaxDegree indices.
MaxDegree == 4
\* Map construction reads at most MaxSystems solar systems and MaxGates stargates.
MaxSystems == 2
MaxGates == 2

Nodes == 0 .. (NumNodes - 1)
Costs == 0 .. MaxCost

\* The closed store is a vector of Capacity entries (SimpleClosed::new); the
\* searches over enumerated graphs size it above the number of nodes.  The
\* application's own store, of APP_CAPACITY entries, is in SpecApp.
Capacity == NumNodes + 1
Slots == 0 .. (Capacity - 1)

NoRepeats(q) == \A i, j \in DOMAIN q : q[i] = q[j] => i = j

\* ------------------------------------------------------------ Option values
None == << >>
Some(x) == << x >>
IsSome(o) == Len(o) = 1
Unwrap(o) == o[1]

\* ------------------------------------------------------- astar.rs: OpenItem
OpenItem(h, n) == [heuristic |-> h, node |-> n]

Reverse(ord) ==
    CASE ord = "Less" -> "Greater"
      [] ord = "Greater" -> "Less"
      [] OTHER -> "Equal"

CostCmp(a, b) == IF a < b THEN "Less" ELSE IF a > b THEN "Greater" ELSE "Equal"

\* a mutant of OpenItemCmp: the ordering of the priorities is not reversed
OpenItemCmpNotReversed(a, b) == CostCmp(a.heuristic, b.heuristic)

\* OpenItem::partial_cmp / cmp: the priorities compared, then reversed, so that
\* the max-heap of the open list yields the minimum priority first.
OpenItemCmp(a, b) == Reverse(CostCmp(a.heuristic, b.heuristic))

\* OpenItem::eq
OpenItemEq(a, b) == a.node = b.node

\* a <= b as PartialOrd derives it from partial_cmp
OpenItemLe(a, b) == OpenItemCmp(a, b) \in {"Less", "Equal"}

\* -------------------------------------------- simpleopen.rs: SimpleOpenList
\* The BinaryHeap under SimpleOpenList is a vector; data[i] is heap slot i-1,
\* the parent of position i is i \div 2 and its children are 2i and 2i+1.
Swap(data, i, j) == [data EXCEPT ![i] = data[j], ![j] = data[i]]

RECURSIVE SiftUp(_, _, _)
\* BinaryHeap::sift_up(start, pos): the element at pos rises while it is
\* greater than its parent.
SiftUp(data, start, pos) ==
    IF pos > start /\ ~OpenItemLe(data[pos], data[pos \div 2])
    THEN SiftUp(Swap(data, pos, pos \div 2), start, pos \div 2)
    ELSE data

RECURSIVE SiftDownToBottom(_, _, _)
\* BinaryHeap::sift_down_to_bottom(pos): the element at pos sinks to a leaf
\* along the greater children, then rises again from there (start is the
\* position the descent began at).
SiftDownToBottom(data, start, pos) ==
    LET end == Len(data)
        child == 2 * pos
    IN  IF child + 1 <= end
        THEN LET c == IF OpenItemLe(data[child], data[child + 1])
                      THEN child + 1 ELSE child
             IN  SiftDownToBottom(Swap(data, pos, c), start, c)
        ELSE IF child = end
        THEN SiftUp(Swap(data, pos, child), start, child)
        ELSE SiftUp(data, start, pos)

\* SimpleOpenList::new
NewOpenList == << >>

\* SimpleOpenList::push_open: BinaryHeap::push
push_open(data, e) == SiftUp(Append(data, e), 1, Len(data) + 1)

\* SimpleOpenList::pop_min: BinaryHeap::pop; the pair of the popped item (an
\* Option) and the heap that is left.
pop_min(data) ==
    IF data = << >>
    THEN [item |-> None, open |-> data]
    ELSE LET last == data[Len(data)]
             rest == SubSeq(data, 1, Len(data) - 1)
         IN  IF rest = << >>
             THEN [item |-> Some(last), open |-> rest]
             ELSE [item |-> Some(rest[1]),
                   open |-> SiftDownToBottom([rest EXCEPT ![1] = last], 1, 1)]

\* ------------------------------------------- astar.rs: ClosedListState
Unvisited == [tag |-> "Unvisited"]
StartingPoint(c) == [tag |-> "StartingPoint", cost |-> c]
PathFrom(n, c) == [tag |-> "PathFrom", from |-> n, cost |-> c]

\* SimpleClosed::new(capacity)
NewClosed == [n \in Slots |-> Unvisited]

RECURSIVE UnwindLoop(_, _, _, _)
\* The while-let loop of ClosedList::unwind: path grows by the predecessor as
\* long as the state of r is PathFrom.  The loop of the code has no bound; here
\* it is cut after fuel steps and reported as not terminating.
UnwindLoop(cl, r, path, fuel) ==
    IF cl[r].tag = "PathFrom"
    THEN IF fuel = 0
         THEN [terminates |-> FALSE, path |-> path]
         ELSE UnwindLoop(cl, cl[r].from, Append(path, cl[r].from), fuel - 1)
    ELSE [terminates |-> TRUE, path |-> path]

ReverseSeq(s) == [i \in 1 .. Len(s) |-> s[Len(s) + 1 - i]]

\* a mutant of unwind: the path begins empty, not with the node
unwindFromEmpty(cl, node) ==
    LET w == UnwindLoop(cl, node, << >>, Capacity)
    IN  [terminates |-> w.terminates, path |-> ReverseSeq(w.path)]

\* ClosedList::unwind(node)
unwind(cl, node) ==
    LET w == UnwindLoop(cl, node, << node >>, Capacity)
    IN  [terminates |-> w.terminates, path |-> ReverseSeq(w.path)]

\* ------------------------------------------------------------------ state
VARIABLES
    neighbours,    \* the neighbour function: node -> sequence of <<cost, node>>
    heuristic,     \* the heuristic function: node -> cost
    goals,         \* the goal predicate, as the set of nodes satisfying it
    seeded,        \* whether the caller has set closed[start] before the call
    open,          \* SimpleOpenList.ordering: the heap vector
    closed,        \* SimpleClosed.0: the vector of ClosedListState
    pc,            \* where astar is: "pop" (loop head), "for" (in the for loop), "done"
    item,          \* the Option last returned by pop_min
    current_cost,  \* astar's local current_cost
    todo,          \* what the for loop has still to enumerate of neighbours(current_node)
    result,        \* "Running", or what astar returned
    pending,       \* open-list exercise: the bag of items pushed and not yet popped
    popFrom,       \* open-list exercise: Some(pending before the last pop_min), None after a push
    comparison,    \* two open items and what eq and cmp have returned for them
    system,        \* a SolarSystemMapItem: its neighbours cell and what has been enumerated
    sde,           \* what Map::new reads: the stellar items and the stargates by system
    map,           \* Map::new: its locals, where it is, and what it has returned
    second,        \* a second search over the same graph, with its own open and closed
    iterations,    \* how many times astar has entered the body of its while loop
    pushed         \* node -> how many times astar has called push_open for it

inputs == << neighbours, heuristic, goals, seeded >>
counts == << iterations, pushed >>
search == << open, closed, pc, item, current_cost, todo, result, counts >>
exercise == << pending, popFrom >>
others == << comparison, system, sde, map, second >>
vars == << inputs, search, exercise, others >>

\* astar has not run yet
NoCounts == iterations = 0 /\ pushed = [n \in Slots |-> 0]

\* the parts of the state a specification does not use stay as they are here
NoComparison == comparison = None
NoSystem == system = None
NoMap == sde = None /\ map = None
NoSecond == second = None

\* The search state as one value, so that one step of astar is a function of it.
Cur ==
    [open |-> open, closed |-> closed, pc |-> pc, item |-> item,
     current_cost |-> current_cost, todo |-> todo, result |-> result]

Apply(t) ==
    /\ open' = t.open
    /\ closed' = t.closed
    /\ pc' = t.pc
    /\ item' = t.item
    /\ current_cost' = t.current_cost
    /\ todo' = t.todo
    /\ result' = t.result

\* --------------------------------------------------------- astar.rs: astar
\* the goal predicate handed to astar (main.rs: |n| n == &yulai_idx)
is_goal(gs, n) == n \in gs

Finish(s, r) == [s EXCEPT !.pc = "done", !.result = r]

\* a mutant of LoopHead: a start node is expanded without the goal test
LoopHeadExpandsStart(s, gs, nb) ==
    LET p == pop_min(s.open)
        t == [s EXCEPT !.open = p.open, !.item = p.item]
    IN  IF ~IsSome(p.item)
        THEN Finish(t, "PathNotFound")
        ELSE LET current_node == Unwrap(p.item).node
                 st == s.closed[current_node]
             IN  IF is_goal(gs, current_node) /\ st.tag # "StartingPoint"
                 THEN Finish(t, "Ok")
                 ELSE IF st.tag = "Unvisited"
                 THEN Finish(t, "OpenItemNotInClosedList")
                 ELSE [t EXCEPT !.current_cost = st.cost,
                                !.todo = nb[current_node],
                                !.pc = IF nb[current_node] = << >> THEN "pop" ELSE "for"]

\* a mutant of LoopHead: an Unvisited node is taken for the origin, of cost 0
LoopHeadAssumesOrigin(s, gs, nb) ==
    LET p == pop_min(s.open)
        t == [s EXCEPT !.open = p.open, !.item = p.item]
    IN  IF ~IsSome(p.item)
        THEN Finish(t, "PathNotFound")
        ELSE LET current_node == Unwrap(p.item).node
                 st == s.closed[current_node]
             IN  IF is_goal(gs, current_node)
                 THEN Finish(t, "Ok")
                 ELSE [t EXCEPT !.current_cost =
                                    IF st.tag = "Unvisited" THEN 0 ELSE st.cost,
                                !.todo = nb[current_node],
                                !.pc = IF nb[current_node] = << >> THEN "pop" ELSE "for"]

\* a mutant of LoopHead: the goal test comes after the lookup of the cost
LoopHeadTestsGoalLate(s, gs, nb) ==
    LET p == pop_min(s.open)
        t == [s EXCEPT !.open = p.open, !.item = p.item]
    IN  IF ~IsSome(p.item)
        THEN Finish(t, "PathNotFound")
        ELSE LET current_node == Unwrap(p.item).node
                 st == s.closed[current_node]
             IN  IF st.tag = "Unvisited"
                 THEN Finish(t, "OpenItemNotInClosedList")
                 ELSE IF is_goal(gs, current_node)
                 THEN Finish(t, "Ok")
                 ELSE [t EXCEPT !.current_cost = st.cost,
                                !.todo = nb[current_node],
                                !.pc = IF nb[current_node] = << >> THEN "pop" ELSE "for"]

\* astar, from the head of the while loop to the head of the for loop: pop_min,
\* the goal test, the lookup of the popped node's cost, the call of neighbours.
LoopHead(s, gs, nb) ==
    LET p == pop_min(s.open)
        t == [s EXCEPT !.open = p.open, !.item = p.item]
    IN  IF ~IsSome(p.item)
        THEN Finish(t, "PathNotFound")
        ELSE LET current_node == Unwrap(p.item).node
                 st == s.closed[current_node]
             IN  IF is_goal(gs, current_node)
                 THEN Finish(t, "Ok")
                 ELSE IF st.tag = "Unvisited"
                 THEN Finish(t, "OpenItemNotInClosedList")
                 ELSE [t EXCEPT !.current_cost = st.cost,
                                !.todo = nb[current_node],
                                !.pc = IF nb[current_node] = << >> THEN "pop" ELSE "for"]

\* a mutant of Decide: a labelled neighbour is skipped whatever its cost
DecideSkipsLabelled(st, potential_path_cost) ==
    IF st.tag = "Unvisited" THEN "visit" ELSE "continue"

\* a mutant of Decide: every neighbour is labelled anew
DecideAlwaysVisits(st, potential_path_cost) == "visit"

\* a mutant of Decide: a dearer label is relaxed, as A* does
DecideRelaxes(st, potential_path_cost) ==
    CASE st.tag = "PathFrom" /\ st.cost <= potential_path_cost -> "continue"
      [] st.tag = "StartingPoint" -> "continue"
      [] OTHER -> "visit"

\* a mutant of Decide: only a strictly cheaper label is kept
DecideStrict(st, potential_path_cost) ==
    CASE st.tag = "PathFrom" /\ st.cost < potential_path_cost -> "continue"
      [] st.tag = "StartingPoint" -> "continue"
      [] st.tag = "PathFrom" -> "FoundHigherCostPath"
      [] OTHER -> "visit"

\* a mutant of Decide: a start node is labelled like an Unvisited node
DecideReroutesStart(st, potential_path_cost) ==
    CASE st.tag = "PathFrom" /\ st.cost <= potential_path_cost -> "continue"
      [] st.tag = "PathFrom" -> "FoundHigherCostPath"
      [] OTHER -> "visit"

\* what the match on closed[neighbour] decides
Decide(st, potential_path_cost) ==
    CASE st.tag = "PathFrom" /\ st.cost <= potential_path_cost -> "continue"
      [] st.tag = "StartingPoint" -> "continue"
      [] st.tag = "PathFrom" -> "FoundHigherCostPath"
      [] OTHER -> "visit"

\* a mutant of ForBody: the cheaper path is recorded before the error is returned
ForBodyRecordsCheaperPath(s, h) ==
    LET current_node == Unwrap(s.item).node
        neighbour_cost == Head(s.todo)[1]
        neighbour == Head(s.todo)[2]
        potential_path_cost == neighbour_cost + s.current_cost
        rest == Tail(s.todo)
        next == [s EXCEPT !.todo = rest,
                          !.pc = IF rest = << >> THEN "pop" ELSE "for"]
        d == Decide(s.closed[neighbour], potential_path_cost)
    IN  CASE d = "continue" -> next
          [] d = "FoundHigherCostPath" ->
             Finish([s EXCEPT !.closed[neighbour] =
                                  PathFrom(current_node, potential_path_cost)],
                    "FoundHigherCostPath")
          [] OTHER ->
             [next EXCEPT
                !.closed[neighbour] = PathFrom(current_node, potential_path_cost),
                !.open = push_open(s.open,
                             OpenItem(potential_path_cost + h[neighbour], neighbour))]

\* a mutant of ForBody: the neighbour is recorded as its own predecessor
ForBodyRecordsNeighbourAsOrigin(s, h) ==
    LET current_node == Unwrap(s.item).node
        neighbour_cost == Head(s.todo)[1]
        neighbour == Head(s.todo)[2]
        potential_path_cost == neighbour_cost + s.current_cost
        rest == Tail(s.todo)
        next == [s EXCEPT !.todo = rest,
                          !.pc = IF rest = << >> THEN "pop" ELSE "for"]
        d == Decide(s.closed[neighbour], potential_path_cost)
    IN  CASE d = "continue" -> next
          [] d = "FoundHigherCostPath" -> Finish(s, "FoundHigherCostPath")
          [] OTHER ->
             [next EXCEPT
                !.closed[neighbour] = PathFrom(neighbour, potential_path_cost),
                !.open = push_open(s.open,
                             OpenItem(potential_path_cost + h[neighbour], neighbour))]

\* a mutant of ForBody: the neighbour is labelled and not pushed
ForBodyLabelsWithoutPush(s, h) ==
    LET current_node == Unwrap(s.item).node
        neighbour_cost == Head(s.todo)[1]
        neighbour == Head(s.todo)[2]
        potential_path_cost == neighbour_cost + s.current_cost
        rest == Tail(s.todo)
        next == [s EXCEPT !.todo = rest,
                          !.pc = IF rest = << >> THEN "pop" ELSE "for"]
        d == Decide(s.closed[neighbour], potential_path_cost)
    IN  CASE d = "continue" -> next
          [] d = "FoundHigherCostPath" -> Finish(s, "FoundHigherCostPath")
          [] OTHER ->
             [next EXCEPT
                !.closed[neighbour] = PathFrom(current_node, potential_path_cost)]

\* astar, one pass of the for loop over (neighbour_cost, neighbour)
ForBody(s, h) ==
    LET current_node == Unwrap(s.item).node
        neighbour_cost == Head(s.todo)[1]
        neighbour == Head(s.todo)[2]
        potential_path_cost == neighbour_cost + s.current_cost
        rest == Tail(s.todo)
        next == [s EXCEPT !.todo = rest,
                          !.pc = IF rest = << >> THEN "pop" ELSE "for"]
        d == Decide(s.closed[neighbour], potential_path_cost)
    IN  CASE d = "continue" -> next
          [] d = "FoundHigherCostPath" -> Finish(s, "FoundHigherCostPath")
          [] OTHER ->
             [next EXCEPT
                !.closed[neighbour] = PathFrom(current_node, potential_path_cost),
                !.open = push_open(s.open,
                             OpenItem(potential_path_cost + h[neighbour], neighbour))]

\* one step of astar, whichever the search is at
Step(s, gs, h, nb) ==
    IF s.pc = "pop" THEN LoopHead(s, gs, nb)
    ELSE IF s.pc = "for" THEN ForBody(s, h)
    ELSE s

RECURSIVE Run(_, _, _, _, _)
\* astar run to its return (fuel bounds the steps taken)
Run(s, gs, h, nb, fuel) ==
    IF s.pc = "done" \/ fuel = 0 THEN s ELSE Run(Step(s, gs, h, nb), gs, h, nb, fuel - 1)

\* ----------------------------------------------------------------- inputs
\* A graph is given as its directed edges <<from, to, cost>>, in the order in
\* which the neighbour function enumerates them.
Edges == Nodes \X Nodes \X Costs
EdgeListsUpTo(m) == UNION { [1 .. k -> Edges] : k \in 0 .. m }
EdgeLists == EdgeListsUpTo(MaxEdges)

RECURSIVE NeighbourList(_, _)
\* the Vec<(Cost, Node)> the neighbour closure returns for n
\* (main.rs: map.get_neighbours(n).map(|p| (one_jump, p)).collect())
NeighbourList(es, n) ==
    IF es = << >> THEN << >>
    ELSE IF Head(es)[1] = n
         THEN << << Head(es)[3], Head(es)[2] >> >> \o NeighbourList(Tail(es), n)
         ELSE NeighbourList(Tail(es), n)

NeighbourFunction(es) == [n \in Slots |-> NeighbourList(es, n)]

\* a heuristic closure, as its table of values
HeuristicTable(f) == [n \in Slots |-> IF n \in DOMAIN f THEN f[n] ELSE 0]
ZeroHeuristic == [n \in Slots |-> 0]

\* The node the search starts from.  Node indices carry no meaning of their
\* own and the graphs, heuristics and goals range over all of Nodes, so the
\* start is taken to be index 0.
Start == 0

\* the example graph of the specification: A-B (1), B-C (1), A-C (5), each edge
\* in both directions, with A = 0, B = 1, C = 2
ExampleEdges ==
    << << 0, 1, 1 >>, << 0, 2, 5 >>, << 1, 0, 1 >>, << 1, 2, 1 >>,
       << 2, 0, 5 >>, << 2, 1, 1 >> >>

\* graphs of four nodes in which the start (0) has an edge to the goal (1) and
\* the two ends of a side branch, 0 -> 2 and 0 -> 3, joined by 2 -> 3
BranchEdges(c) ==
    << << 0, 1, c[1] >>, << 0, 2, c[2] >>, << 0, 3, c[3] >>, << 2, 3, c[4] >> >>

\* a mutant of SeedOpen: the start item is pushed with priority 0
SeedOpenWithoutEstimate(h, start) == push_open(NewOpenList, OpenItem(0, start))

\* main.rs, "Start things off": the start item is pushed with the heuristic as
\* its priority and, when the caller seeds the store, closed[start] is
\* StartingPoint(0).
SeedOpen(h, start) == push_open(NewOpenList, OpenItem(h[start], start))
SeedClosed(start, sd) ==
    IF sd THEN [NewClosed EXCEPT ![start] = StartingPoint(0)] ELSE NewClosed

\* the search state astar is called with
Seeded(h, start, sd) ==
    [open |-> SeedOpen(h, start), closed |-> SeedClosed(start, sd),
     pc |-> "pop", item |-> None, current_cost |-> 0, todo |-> << >>,
     result |-> "Running"]

InitSearchState(nb, h, gs, sd) ==
    /\ neighbours = nb
    /\ heuristic = h
    /\ goals = gs
    /\ seeded = sd
    /\ LET s == Seeded(h, Start, sd)
       IN  /\ open = s.open
           /\ closed = s.closed
           /\ pc = s.pc
           /\ item = s.item
           /\ current_cost = s.current_cost
           /\ todo = s.todo
           /\ result = s.result
    /\ pending = EmptyBag
    /\ popFrom = None
    /\ NoCounts

\* one search, and nothing else
InitSearch(nb, h, gs, sd) ==
    /\ InitSearchState(nb, h, gs, sd)
    /\ NoComparison /\ NoSystem /\ NoMap /\ NoSecond

\* every graph, heuristic and goal within the bounds, correctly seeded
InitEnumerated ==
    \E es \in EdgeLists, f \in [Nodes -> 0 .. MaxHeuristic], g \in Nodes :
        InitSearch(NeighbourFunction(es), HeuristicTable(f), {g}, TRUE)

\* The start item pushed, the closed store left unseeded.  Such a search ends
\* at its first pop, before the neighbour function is called: graphs of one
\* edge are enough.
InitUnseeded ==
    \E es \in EdgeListsUpTo(1), f \in [Nodes -> 0 .. MaxHeuristic],
       g \in Nodes :
        InitSearch(NeighbourFunction(es), HeuristicTable(f), {g}, FALSE)

\* the example of the specification, for every goal
InitExample ==
    \E g \in Slots :
        InitSearch(NeighbourFunction(ExampleEdges), ZeroHeuristic, {g}, TRUE)

\* the four-node graphs, for every choice of costs and every heuristic
InitBranch ==
    \E c \in [1 .. 4 -> Costs], f \in [0 .. 3 -> 0 .. MaxHeuristic] :
        InitSearch(NeighbourFunction(BranchEdges(c)), HeuristicTable(f), {1}, TRUE)

Init == InitExample \/ InitBranch \/ InitUnseeded \/ InitEnumerated

\* ---------------------------------------------------------------- actions
\* pop_min finds the open list empty: Err(PathNotFound)
PopEmpty ==
    /\ pc = "pop"
    /\ LET t == LoopHead(Cur, goals, neighbours)
       IN  t.result = "PathNotFound" /\ Apply(t)
    /\ UNCHANGED counts
    /\ UNCHANGED << inputs, exercise, others >>

\* the popped node satisfies is_goal: Ok(current_node)
PopGoal ==
    /\ pc = "pop"
    /\ LET t == LoopHead(Cur, goals, neighbours)
       IN  t.result = "Ok" /\ Apply(t)
    /\ iterations' = iterations + 1 /\ pushed' = pushed
    /\ UNCHANGED << inputs, exercise, others >>

\* the popped node is Unvisited: Err(OpenItemNotInClosedList)
PopUnvisited ==
    /\ pc = "pop"
    /\ LET t == LoopHead(Cur, goals, neighbours)
       IN  t.result = "OpenItemNotInClosedList" /\ Apply(t)
    /\ iterations' = iterations + 1 /\ pushed' = pushed
    /\ UNCHANGED << inputs, exercise, others >>

\* the popped node is expanded: the for loop begins (or is over at once)
PopExpand ==
    /\ pc = "pop"
    /\ LET t == LoopHead(Cur, goals, neighbours)
       IN  t.result = "Running" /\ Apply(t)
    /\ iterations' = iterations + 1 /\ pushed' = pushed
    /\ UNCHANGED << inputs, exercise, others >>

\* the neighbour is a start node, or is labelled with a cost that is not higher
ForContinue ==
    /\ pc = "for"
    /\ LET t == ForBody(Cur, heuristic)
       IN  t.result = "Running" /\ t.closed = closed /\ Apply(t)
    /\ UNCHANGED counts
    /\ UNCHANGED << inputs, exercise, others >>

\* the neighbour is labelled with a higher cost: Err(FoundHigherCostPath)
ForHigherCost ==
    /\ pc = "for"
    /\ LET t == ForBody(Cur, heuristic)
       IN  t.result = "FoundHigherCostPath" /\ Apply(t)
    /\ UNCHANGED counts
    /\ UNCHANGED << inputs, exercise, others >>

\* the neighbour is Unvisited: it is labelled and pushed
ForVisit ==
    /\ pc = "for"
    /\ LET t == ForBody(Cur, heuristic)
       IN  t.result = "Running" /\ t.closed # closed /\ Apply(t)
    /\ iterations' = iterations /\ pushed' = [pushed EXCEPT ![Head(todo)[2]] = @ + 1]
    /\ UNCHANGED << inputs, exercise, others >>

Next ==
    \/ PopEmpty
    \/ PopGoal
    \/ PopUnvisited
    \/ PopExpand
    \/ ForContinue
    \/ ForHigherCost
    \/ ForVisit

Spec == Init /\ [][Next]_vars

\* every graph of at most two edges, with every heuristic and goal
InitSmall ==
    \E es \in EdgeListsUpTo(2), f \in [Nodes -> 0 .. MaxHeuristic], g \in Nodes :
        InitSearch(NeighbourFunction(es), HeuristicTable(f), {g}, TRUE)

\* astar is sequential code that runs until it returns: a step that can be
\* taken is taken
InitLive == InitExample \/ InitBranch \/ InitUnseeded \/ InitSmall

SpecLive == InitLive /\ [][Next]_vars /\ WF_vars(Next)

\* ------------------------------------------------- the open-list exercise
\* SimpleOpenList on its own: any sequence of push_open and pop_min.
\* The ordering never reads the node of an item: two nodes are enough to
\* tell items of equal priority apart.
Priorities == 0 .. MaxPriority
ItemNodes == { Start, Start + 1 }
Items == { OpenItem(p, n) : p \in Priorities, n \in ItemNodes }

InitOpen ==
    /\ neighbours = NeighbourFunction(<< >>)
    /\ heuristic = ZeroHeuristic
    /\ goals = {}
    /\ seeded = FALSE
    /\ open = NewOpenList
    /\ closed = NewClosed
    /\ pc = "exercise"
    /\ item = None
    /\ current_cost = 0
    /\ todo = << >>
    /\ result = "Running"
    /\ pending = EmptyBag
    /\ popFrom = None
    /\ NoCounts
    /\ NoComparison /\ NoSystem /\ NoMap /\ NoSecond

\* a call of push_open
PushOpen ==
    /\ pc = "exercise"
    /\ Len(open) < MaxOpen
    /\ \E e \in Items :
        /\ open' = push_open(open, e)
        /\ pending' = pending (+) SetToBag({e})
    /\ popFrom' = None
    /\ UNCHANGED << inputs, closed, pc, item, current_cost, todo, result, counts, others >>

\* a call of pop_min
PopMin ==
    /\ pc = "exercise"
    /\ LET p == pop_min(open)
       IN  /\ open' = p.open
           /\ item' = p.item
           /\ pending' = IF IsSome(p.item)
                         THEN pending (-) SetToBag({Unwrap(p.item)})
                         ELSE pending
    /\ popFrom' = Some(pending)
    /\ UNCHANGED << inputs, closed, pc, current_cost, todo, result, counts, others >>

NextOpen == PushOpen \/ PopMin

SpecOpen == InitOpen /\ [][NextOpen]_vars

\* the search and the open-list exercise at rest, for the specifications of
\* the other parts of the program
NoSearch ==
    /\ neighbours = NeighbourFunction(<< >>)
    /\ heuristic = ZeroHeuristic
    /\ goals = {}
    /\ seeded = FALSE
    /\ open = NewOpenList
    /\ closed = NewClosed
    /\ pc = "idle"
    /\ item = None
    /\ current_cost = 0
    /\ todo = << >>
    /\ result = "Running"
    /\ pending = EmptyBag
    /\ popFrom = None
    /\ NoCounts

\* ------------------------------------------- two searches over one graph
\* the heuristic closure of main.rs, |_| one_jump_estimate
ConstHeuristic(k) == [n \in Slots |-> k]

\* the graphs the two searches run over: the example, the four-node graphs
\* and the graphs of at most one edge
PairGraphs ==
    { ExampleEdges } \cup { BranchEdges(c) : c \in [1 .. 4 -> Costs] }
        \cup EdgeListsUpTo(1)

\* The first search is the one of the search variables.  The second has its
\* own open list and closed list (second.s), seeded from its own start; both
\* call the same neighbour function.
InitPair ==
    /\ NoComparison /\ NoSystem /\ NoMap
    /\ \E es \in PairGraphs, h \in { ZeroHeuristic, ConstHeuristic(1) },
          g \in Nodes, sd \in BOOLEAN :
         InitSearchState(NeighbourFunction(es), h, {g}, sd)
    /\ \E start2 \in Nodes, g2 \in Nodes :
         second = [start |-> start2, goals |-> {g2}, heuristic |-> ConstHeuristic(1),
                   s |-> Seeded(ConstHeuristic(1), start2, TRUE),
                   interleaved |-> FALSE]

\* the first search has begun and has not returned
FirstMidRun == pc # "done" /\ Cur # Seeded(heuristic, Start, seeded)

\* a mutant of SecondStep: the second search works on the closed list of the
\* first
SecondStepSharesClosed ==
    /\ second.s.pc # "done"
    /\ LET t == Step([second.s EXCEPT !.closed = closed], second.goals,
                     second.heuristic, neighbours)
       IN  /\ second' = [second EXCEPT !.s = t,
                                       !.interleaved = @ \/ FirstMidRun]
           /\ closed' = t.closed
    /\ UNCHANGED << inputs, open, pc, item, current_cost, todo, result, counts, exercise,
                    comparison, system, sde, map >>

\* one step of the second search, on its own open list and closed list; it
\* reads the graph through the neighbour function
SecondStep ==
    /\ second.s.pc # "done"
    /\ second' = [second EXCEPT
                    !.s = Step(second.s, second.goals, second.heuristic, neighbours),
                    !.interleaved = @ \/ FirstMidRun]
    /\ UNCHANGED << inputs, search, exercise, comparison, system, sde, map >>

NextPair ==
    \/ PopEmpty
    \/ PopGoal
    \/ PopUnvisited
    \/ PopExpand
    \/ ForContinue
    \/ ForHigherCost
    \/ ForVisit
    \/ SecondStep

SpecPair == InitPair /\ [][NextPair]_vars

\* ---------------------------------------------- OpenItem: equality and order
\* two open items, compared with == and with cmp
InitItems ==
    /\ NoSearch /\ NoSystem /\ NoMap /\ NoSecond
    /\ \E a \in Items, b \in Items :
         comparison = [a |-> a, b |-> b, eq |-> None, cmp |-> None]

\* a == b
CallEq ==
    /\ comparison.eq = None
    /\ comparison' =
         [comparison EXCEPT !.eq = Some(OpenItemEq(comparison.a, comparison.b))]
    /\ UNCHANGED << inputs, search, exercise, system, sde, map, second >>

\* a.cmp(&b)
CallCmp ==
    /\ comparison.cmp = None
    /\ comparison' =
         [comparison EXCEPT !.cmp = Some(OpenItemCmp(comparison.a, comparison.b))]
    /\ UNCHANGED << inputs, search, exercise, system, sde, map, second >>

NextItems == CallEq \/ CallCmp

SpecItems == InitItems /\ [][NextItems]_vars

\* ------------------------------------------------- evemap.rs: Neighbours
NUM_IN_PLACE_JUMPS == 3

\* a mutant of from_iter: the heap list is chosen from NUM_IN_PLACE_JUMPS
\* elements on
from_iter_spills_early(values) ==
    IF Len(values) >= NUM_IN_PLACE_JUMPS
    THEN [variant |-> "Vec", data |-> values]
    ELSE [variant |-> "InPlace",
          data |-> [i \in 1 .. NUM_IN_PLACE_JUMPS |->
                       IF i <= Len(values) THEN Some(values[i]) ELSE None]]

\* Neighbours::from_iter: Neighbours::Vec(values) above NUM_IN_PLACE_JUMPS
\* elements, else Neighbours::InPlace of an array of Options filled from the front
from_iter(values) ==
    IF Len(values) > NUM_IN_PLACE_JUMPS
    THEN [variant |-> "Vec", data |-> values]
    ELSE [variant |-> "InPlace",
          data |-> [i \in 1 .. NUM_IN_PLACE_JUMPS |->
                       IF i <= Len(values) THEN Some(values[i]) ELSE None]]

RECURSIVE FilterMapSome(_)
\* a.iter().filter_map(|n| *n): the values of the entries that are Some
FilterMapSome(a) ==
    IF a = << >> THEN << >>
    ELSE IF IsSome(Head(a))
         THEN << Unwrap(Head(a)) >> \o FilterMapSome(Tail(a))
         ELSE FilterMapSome(Tail(a))

\* SolarSystemMapItem::get_neighbours, of the OnceCell of the item: what the
\* iterator it returns yields
get_neighbours(cell) ==
    IF ~IsSome(cell) THEN << >>
    ELSE IF Unwrap(cell).variant = "Vec" THEN Unwrap(cell).data
    ELSE FilterMapSome(Unwrap(cell).data)

\* the index sequences collected in the exercise
IndexSequences == UNION { [1 .. k -> Nodes] : k \in 0 .. MaxDegree }

\* a SolarSystemMapItem as Map::new pushes it (neighbours: Default::default())
\* and the sequence that is to be collected into it
InitNeighbours ==
    /\ NoSearch /\ NoComparison /\ NoMap /\ NoSecond
    /\ \E vs \in IndexSequences :
         system = [values |-> vs, neighbours |-> None, enumerated |-> << >>]

\* values.collect::<Neighbours>() and ss.neighbours.set(neighbours)
Collect ==
    /\ system.neighbours = None
    /\ system' = [system EXCEPT !.neighbours = Some(from_iter(system.values))]
    /\ UNCHANGED << inputs, search, exercise, comparison, sde, map, second >>

\* get_neighbours().collect(): one enumeration, from the beginning
GetNeighbours ==
    /\ Len(system.enumerated) < 2
    /\ system' = [system EXCEPT !.enumerated =
                     Append(@, [set |-> IsSome(system.neighbours),
                                out |-> get_neighbours(system.neighbours)])]
    /\ UNCHANGED << inputs, search, exercise, comparison, sde, map, second >>

NextNeighbours == Collect \/ GetNeighbours

SpecNeighbours == InitNeighbours /\ [][NextNeighbours]_vars

\* ------------------------------------------------------ evemap.rs: Map::new
\* the greatest SolarSystemIndex (a u16)
U16_MAX == 65535

\* The solar system ids of the input are not dense, and two files may carry
\* the same id; the stargate ids are distinct.  GateIds are the ids a stargate
\* or a destination can have.
SystemIdPool == { 10 * k : k \in 1 .. MaxSystems }
GateIds == 1 .. MaxGates
ParentNames == { "constellation", "region" }

\* the ids of the solar system files, in the order they are read
SystemOrders == UNION { [1 .. k -> SystemIdPool] : k \in 0 .. MaxSystems }

RECURSIVE GatesOf(_, _, _, _)
\* the Vec<StargateData> of the system at position i of the input: the gates g
\* (from g on) with owner[g] = i, each with its destination
GatesOf(owner, dest, i, g) ==
    IF g > MaxGates THEN << >>
    ELSE (IF owner[g] = i
          THEN << [stargate_id |-> g, destination_stargate_id |-> dest[g]] >>
          ELSE << >>) \o GatesOf(owner, dest, i, g + 1)

\* what Map::new has read when its first loop is over: the names of the
\* regions and constellations among the stellar items, and stargates_by_system
\* (one entry for every solar system, in file order)
SdeInput(names, order, owner, dest) ==
    [names |-> names,
     systems |-> [i \in 1 .. Len(order) |->
                    [id |-> order[i], stargates |-> GatesOf(owner, dest, i, 1)]]]

RECURSIVE InsertByKey(_, _)
InsertByKey(x, sorted) ==
    IF sorted = << >> THEN << x >>
    ELSE IF x.solar_system_id <= Head(sorted).solar_system_id
         THEN << x >> \o sorted
         ELSE << Head(sorted) >> \o InsertByKey(x, Tail(sorted))

\* a mutant of SortByKey: the systems stay in file order
SortByKeyKeepsFileOrder(q) == q

RECURSIVE SortByKey(_)
\* sort_unstable_by_key(|x| x.solar_system_id.0); records of the same id are
\* the same record here, so that their order is no choice
SortByKey(q) ==
    IF q = << >> THEN << >> ELSE InsertByKey(Head(q), SortByKey(Tail(q)))

\* solarsystem_lookup: the id of the system at offset i (from 0) maps to i;
\* None when an offset does not fit a u16 (try_into()?)
SolarSystemLookup(solarsystems) ==
    IF Len(solarsystems) > U16_MAX + 1 THEN None
    ELSE Some([id \in { solarsystems[i].solar_system_id : i \in DOMAIN solarsystems } |->
                 (CHOOSE i \in DOMAIN solarsystems :
                      /\ solarsystems[i].solar_system_id = id
                      /\ \A j \in DOMAIN solarsystems :
                           solarsystems[j].solar_system_id = id => j <= i) - 1])

\* stargate_id_to_system_id: every stargate id maps to the index of the system
\* it is listed under (the last such system, as HashMap's collect keeps it)
StargateLookup(by_system, lookup) ==
    LET has(i, g) == \E k \in DOMAIN by_system[i].stargates :
                        by_system[i].stargates[k].stargate_id = g
        ids == { g \in GateIds : \E i \in DOMAIN by_system : has(i, g) }
    IN  [g \in ids |->
            lookup[by_system[CHOOSE i \in DOMAIN by_system :
                                /\ has(i, g)
                                /\ \A j \in DOMAIN by_system : has(j, g) => j <= i].id]]

\* a mutant of ResolveGates: a stargate whose destination is unknown is left out
ResolveGatesDropsUnknown(gate_lookup, stargates) ==
    LET known == SelectSeq(stargates,
                     LAMBDA g : g.destination_stargate_id \in DOMAIN gate_lookup)
    IN  [panic |-> FALSE,
         values |-> [k \in DOMAIN known |->
                        gate_lookup[known[k].destination_stargate_id]]]

\* stargates.iter().map(|g| stargate_id_to_system_id[&g.destination_stargate_id]):
\* indexing the HashMap with a key it does not hold panics
ResolveGates(gate_lookup, stargates) ==
    IF \E k \in DOMAIN stargates :
           stargates[k].destination_stargate_id \notin DOMAIN gate_lookup
    THEN [panic |-> TRUE, values |-> << >>]
    ELSE [panic |-> FALSE,
          values |-> [k \in DOMAIN stargates |->
                         gate_lookup[stargates[k].destination_stargate_id]]]

\* Map::get_solarsystem_idx, get_system and get_extended_solarsystem_info
get_solarsystem_idx(m, id) == m.solarsystem_lookup[id]
get_system(m, i) == m.solarsystems[i + 1]
get_extended_solarsystem_info(m, i) == m.solarsystems_ex[i + 1]

InitMap ==
    /\ NoSearch /\ NoComparison /\ NoSystem /\ NoSecond
    /\ \E names \in SUBSET ParentNames, order \in SystemOrders :
         \E owner \in [GateIds -> 0 .. Len(order)], dest \in [GateIds -> GateIds] :
            sde = SdeInput(names, order, owner, dest)
    /\ map = [pc |-> "read", solarsystems |-> << >>, solarsystems_ex |-> << >>,
              solarsystem_lookup |-> << >>, stargate_id_to_system_id |-> << >>,
              todo |-> << >>, outcome |-> "Running"]

MapFrame == UNCHANGED << inputs, search, exercise, comparison, system, sde, second >>

\* every solar system's constellation and region are among the stellar items:
\* solarsystems and solarsystems_ex are filled in file order
ReadStellarItems ==
    /\ map.pc = "read"
    /\ sde.systems = << >> \/ ParentNames \subseteq sde.names
    /\ map' = [map EXCEPT
                 !.solarsystems = [i \in DOMAIN sde.systems |->
                     [solar_system_id |-> sde.systems[i].id, neighbours |-> None]],
                 !.solarsystems_ex = [i \in DOMAIN sde.systems |->
                     [solar_system_id |-> sde.systems[i].id,
                      constellation_id |-> "constellation", region_id |-> "region"]],
                 !.pc = "sort"]
    /\ MapFrame

\* a constellation or region name is not found: Err
ReadFails ==
    /\ map.pc = "read"
    /\ ~(sde.systems = << >> \/ ParentNames \subseteq sde.names)
    /\ map' = [map EXCEPT !.pc = "done", !.outcome = "Err"]
    /\ MapFrame

\* the two sort_unstable_by_key calls
SortSystems ==
    /\ map.pc = "sort"
    /\ map' = [map EXCEPT !.solarsystems = SortByKey(@),
                          !.solarsystems_ex = SortByKey(@),
                          !.pc = "lookup"]
    /\ MapFrame

\* solarsystem_lookup and stargate_id_to_system_id are built
BuildLookups ==
    /\ map.pc = "lookup"
    /\ LET l == SolarSystemLookup(map.solarsystems)
       IN  map' = IF ~IsSome(l)
                  THEN [map EXCEPT !.pc = "done", !.outcome = "Err"]
                  ELSE [map EXCEPT
                          !.solarsystem_lookup = Unwrap(l),
                          !.stargate_id_to_system_id =
                              StargateLookup(sde.systems, Unwrap(l)),
                          !.todo = sde.systems,
                          !.pc = "neighbours"]
    /\ MapFrame

\* one pass of the loop over stargates_by_system: the neighbours of one system
\* are collected and set (Err if they are set already)
SetNeighbours ==
    /\ map.pc = "neighbours" /\ map.todo # << >>
    /\ LET ss_idx == map.solarsystem_lookup[Head(map.todo).id]
           r == ResolveGates(map.stargate_id_to_system_id, Head(map.todo).stargates)
       IN  /\ ~r.panic
           /\ map' = IF IsSome(map.solarsystems[ss_idx + 1].neighbours)
                      THEN [map EXCEPT !.pc = "done", !.outcome = "Err"]
                      ELSE [map EXCEPT
                              !.solarsystems[ss_idx + 1].neighbours =
                                  Some(from_iter(r.values)),
                              !.todo = Tail(@)]
    /\ MapFrame

\* a destination stargate id is not in stargate_id_to_system_id: the index
\* expression panics
DestinationUnresolved ==
    /\ map.pc = "neighbours" /\ map.todo # << >>
    /\ ResolveGates(map.stargate_id_to_system_id, Head(map.todo).stargates).panic
    /\ map' = [map EXCEPT !.pc = "done", !.outcome = "panic"]
    /\ MapFrame

\* Ok(Map { .. })
ReturnMap ==
    /\ map.pc = "neighbours" /\ map.todo = << >>
    /\ map' = [map EXCEPT !.pc = "done", !.outcome = "Ok"]
    /\ MapFrame

NextMap ==
    \/ ReadStellarItems
    \/ ReadFails
    \/ SortSystems
    \/ BuildLookups
    \/ SetNeighbours
    \/ DestinationUnresolved
    \/ ReturnMap

SpecMap == InitMap /\ [][NextMap]_vars

\* ------------------------------------------ main.rs: the application's search
\* SimpleClosed::new(9000)
APP_CAPACITY == 9000

\* The maps of the application's search: N systems, of which start has a
\* stargate to mid and mid has one to goal.  Map::new gives an index to up to
\* U16_MAX + 1 systems.
SystemCounts == { APP_CAPACITY, APP_CAPACITY + 1, U16_MAX + 1 }
IndicesOfInterest(N) == { 0, 1, APP_CAPACITY - 1, N - 1 }

\* |n| map.get_neighbours(n).map(|p| (one_jump, p)).collect(), with one_jump = 1
ChainNeighbours(N, start, mid, goal) ==
    [n \in 0 .. (N - 1) |->
        (IF n = start THEN << << 1, mid >> >> ELSE << >>)
        \o (IF n = mid /\ mid # start THEN << << 1, goal >> >> ELSE << >>)]

\* main.rs up to "Start things off": the map is loaded, open and closed are new
InitApp ==
    /\ NoComparison /\ NoSystem /\ NoMap /\ NoSecond /\ NoCounts
    /\ pending = EmptyBag /\ popFrom = None
    /\ \E N \in SystemCounts :
         \E start \in IndicesOfInterest(N), mid \in IndicesOfInterest(N),
            goal \in IndicesOfInterest(N) :
            /\ neighbours = ChainNeighbours(N, start, mid, goal)
            /\ heuristic = [n \in 0 .. (N - 1) |-> 1]
            /\ goals = { goal }
            /\ item = Some(OpenItem(1, start))
    /\ seeded = FALSE
    /\ open = NewOpenList
    /\ closed = [n \in 0 .. (APP_CAPACITY - 1) |-> Unvisited]
    /\ pc = "seed"
    /\ current_cost = 0
    /\ todo = << >>
    /\ result = "Running"

AppFrame == UNCHANGED << neighbours, heuristic, goals, counts, exercise, others >>

\* Vec's index: a position at or beyond the length panics
InRange(cl, index) == index \in DOMAIN cl
Fault(s) == [s EXCEPT !.pc = "done", !.result = "IndexOutOfBounds"]

\* open.push_open(OpenItem { heuristic: one_jump_estimate, node: amarr_idx });
\* closed[amarr_idx] = StartingPoint(0)
AppSeed ==
    /\ pc = "seed"
    /\ InRange(closed, Unwrap(item).node)
    /\ open' = push_open(open, Unwrap(item))
    /\ closed' = [closed EXCEPT ![Unwrap(item).node] = StartingPoint(0)]
    /\ seeded' = TRUE
    /\ pc' = "pop"
    /\ item' = None
    /\ UNCHANGED << current_cost, todo, result >>
    /\ AppFrame

\* closed[amarr_idx] = .. with amarr_idx at or beyond the capacity
AppSeedFault ==
    /\ pc = "seed"
    /\ ~InRange(closed, Unwrap(item).node)
    /\ open' = push_open(open, Unwrap(item))
    /\ pc' = "done"
    /\ result' = "IndexOutOfBounds"
    /\ UNCHANGED << seeded, closed, item, current_cost, todo >>
    /\ AppFrame

\* astar from the head of the while loop; &closed[current_node] is read when
\* the popped node is no goal
AppPop ==
    /\ pc = "pop"
    /\ LET p == pop_min(open)
       IN  IF IsSome(p.item) /\ ~is_goal(goals, Unwrap(p.item).node)
              /\ ~InRange(closed, Unwrap(p.item).node)
           THEN Apply(Fault([Cur EXCEPT !.open = p.open, !.item = p.item]))
           ELSE Apply(LoopHead(Cur, goals, neighbours))
    /\ UNCHANGED seeded
    /\ AppFrame

\* one pass of the for loop, closed[neighbour] within the capacity
AppFor ==
    /\ pc = "for"
    /\ InRange(closed, Head(todo)[2])
    /\ Apply(ForBody(Cur, heuristic))
    /\ UNCHANGED seeded
    /\ AppFrame

\* match closed[neighbour] with neighbour at or beyond the capacity
AppForFault ==
    /\ pc = "for"
    /\ ~InRange(closed, Head(todo)[2])
    /\ Apply(Fault(Cur))
    /\ UNCHANGED seeded
    /\ AppFrame

NextApp == AppSeed \/ AppSeedFault \/ AppPop \/ AppFor \/ AppForFault

SpecApp == InitApp /\ [][NextApp]_vars

\* ------------------------------------------------- notions the claims use
Range(f) == { f[i] : i \in DOMAIN f }
Last(q) == q[Len(q)]

\* every edge cost the neighbour function yields is non-negative
NonNegativeCosts(nb) == \A n \in DOMAIN nb : \A e \in Range(nb[n]) : e[1] >= 0

\* at most one edge from a node to another, and none from a node to itself
SimpleGraph(nb) ==
    \A n \in DOMAIN nb :
        /\ \A i, j \in DOMAIN nb[n] : nb[n][i][2] = nb[n][j][2] => i = j
        /\ \A e \in Range(nb[n]) : e[2] # n

RECURSIVE WalkCosts(_, _, _, _)
\* the summed edge costs of all the paths of at most k edges from n to target
WalkCosts(nb, n, target, k) ==
    (IF n = target THEN {0} ELSE {})
    \cup (IF k = 0 THEN {}
          ELSE UNION { { e[1] + c : c \in WalkCosts(nb, e[2], target, k - 1) } :
                       e \in Range(nb[n]) })

\* All the paths without a repeated node have at most Capacity - 1 edges.
PathCosts(nb, n, target) == WalkCosts(nb, n, target, Capacity - 1)
Reachable(nb, n, target) == PathCosts(nb, n, target) # {}

RECURSIVE CostsAlong(_, _)
\* the summed edge costs the node sequence q can have (a set: there may be
\* several edges between two nodes)
CostsAlong(nb, q) ==
    IF Len(q) <= 1 THEN {0}
    ELSE UNION { { e[1] + c : c \in CostsAlong(nb, Tail(q)) } :
                 e \in { x \in Range(nb[q[1]]) : x[2] = q[2] } }

\* h never overestimates the cost of reaching a goal
Admissible(h, nb, gs) ==
    \A n \in DOMAIN nb : \A g \in gs : \A c \in PathCosts(nb, n, g) : h[n] <= c

\* h(n) <= w(n, m) + h(m) on every edge, and h is 0 on the goals
Consistent(h, nb, gs) ==
    /\ \A n \in DOMAIN nb : \A e \in Range(nb[n]) : h[n] <= e[1] + h[e[2]]
    /\ \A g \in gs : h[g] = 0

\* the node astar has returned, when result is "Ok"
Returned == Unwrap(item).node
Succeeded == pc = "done" /\ result = "Ok"
Labelled(n) == closed[n].tag # "Unvisited"

\* the run of astar from the same seeded start with the zero heuristic
ZeroRun ==
    Run(Seeded(ZeroHeuristic, Start, TRUE), goals, ZeroHeuristic, neighbours,
        (Capacity + 1) * (Capacity + 1))
Outcome(s) ==
    IF s.result = "Ok"
    THEN << "Ok", s.closed[Unwrap(s.item).node].cost >>
    ELSE << s.result >>

IsExample ==
    /\ neighbours = NeighbourFunction(ExampleEdges)
    /\ heuristic = ZeroHeuristic
    /\ goals = {2}
    /\ seeded

\* C2: on the example graph A-B (1), B-C (1), A-C (5) with start A, goal C and
\* the zero heuristic, astar returns C, and unwind(C) is [A, B, C] with cost 2.
C2_ExamplePath ==
    (IsExample /\ pc = "done")
    => /\ result = "Ok"
       /\ Returned = 2
       /\ unwind(closed, 2) = [terminates |-> TRUE, path |-> << 0, 1, 2 >>]
       /\ closed[2].cost = 2

\* C3: with non-negative edge costs, a consistent heuristic and a correctly
\* seeded start, astar never ends with FoundHigherCostPath (stated here of
\* the graphs with at most one edge between two nodes).
C3_NoHigherCostPath ==
    (seeded /\ NonNegativeCosts(neighbours) /\ SimpleGraph(neighbours)
        /\ Consistent(heuristic, neighbours, goals))
    => result # "FoundHigherCostPath"

\* C4: when no goal node is reachable from the seeded start, astar ends with
\* PathNotFound; and it ends with PathNotFound exactly when pop_min has
\* reported the open list empty (stated here of the graphs with non-negative
\* costs and at most one edge between two nodes).
C4_UnreachableGoalNotFound ==
    /\ (pc = "done" /\ seeded /\ NonNegativeCosts(neighbours) /\ SimpleGraph(neighbours)
           /\ \A g \in goals : ~Reachable(neighbours, Start, g))
       => result = "PathNotFound"
    /\ result = "PathNotFound" <=> (pc = "done" /\ item = None)

\* C5: when the seeded start satisfies the goal predicate, the first pop
\* returns it: nothing is expanded, the closed store is as seeded, unwind is
\* [start] and the recorded cost is 0.
C5_StartIsGoal ==
    (seeded /\ Start \in goals)
    => \/ Cur = Seeded(heuristic, Start, TRUE)
       \/ /\ Succeeded
          /\ Returned = Start
          /\ closed = SeedClosed(Start, TRUE)
          /\ open = << >>
          /\ todo = << >>
          /\ unwind(closed, Returned) = [terminates |-> TRUE, path |-> << Start >>]
          /\ closed[Returned].cost = 0

\* the start is a goal, has neighbours, and the search has returned
C5_Witness ==
    /\ seeded /\ Start \in goals /\ Succeeded
    /\ neighbours[Start] # << >>

\* C6: pop_min returns None exactly when no item is pushed and not yet popped,
\* and otherwise one of those items, of a priority that is less than or equal
\* to the priority of each of them.
C6_PopMinIsMinimum ==
    IsSome(popFrom)
    => IF Unwrap(popFrom) = EmptyBag
       THEN item = None
       ELSE /\ IsSome(item)
            /\ BagIn(Unwrap(item), Unwrap(popFrom))
            /\ \A e \in BagToSet(Unwrap(popFrom)) :
                 Unwrap(item).heuristic <= e.heuristic

\* a pop among three items of different priorities, pushed highest first,
\* after an earlier pop
C6_Witness ==
    /\ IsSome(popFrom)
    /\ BagCardinality(Unwrap(popFrom)) >= 3
    /\ \E e \in BagToSet(Unwrap(popFrom)) : e.heuristic > Unwrap(item).heuristic
    /\ \E e \in BagToSet(pending) : e.heuristic = Unwrap(item).heuristic

\* C7: from a correctly seeded start, unwind(n) of every labelled node n
\* terminates, begins with the seeded start, ends with n and repeats no node.
C7_UnwindIsAPathFromStart ==
    seeded
    => \A n \in Slots :
         Labelled(n)
         => LET u == unwind(closed, n)
            IN  /\ u.terminates
                /\ u.path[1] = Start
                /\ closed[u.path[1]].tag = "StartingPoint"
                /\ Last(u.path) = n
                /\ NoRepeats(u.path)

\* a node labelled two steps away from the start, in a graph with a cycle
C7_Witness ==
    /\ seeded
    /\ \E n \in Slots :
         /\ Labelled(n)
         /\ Len(unwind(closed, n).path) = 3
         /\ \E e \in Range(neighbours[n]) : e[2] \in Range(unwind(closed, n).path)

\* C8: unwind of a node whose state is StartingPoint is the one-element
\* sequence of that node, during and after a search.
C8_UnwindOfStart ==
    \A n \in Slots :
        closed[n].tag = "StartingPoint"
        => unwind(closed, n) = [terminates |-> TRUE, path |-> << n >>]

\* the search is over, nodes are labelled from the start, an edge leads back to it
C8_Witness ==
    /\ pc = "done"
    /\ closed[Start].tag = "StartingPoint"
    /\ \E n \in Slots : closed[n].tag = "PathFrom" /\ closed[n].from = Start
    /\ \E n \in Slots : \E e \in Range(neighbours[n]) : n # Start /\ e[2] = Start

\* C9: with non-negative edge costs, the search with an admissible heuristic
\* and the search with the zero heuristic end with the same outcome and, on
\* success, with the same cost recorded for the returned node.
C9_SameAsZeroHeuristic ==
    (pc = "done" /\ seeded /\ NonNegativeCosts(neighbours)
        /\ Admissible(heuristic, neighbours, goals))
    => Outcome(Cur) = Outcome(ZeroRun)

PoppedUnvisited == IsSome(item) /\ closed[Unwrap(item).node].tag = "Unvisited"

C11_LabelledOnce ==
    [][\A n \in Slots :
          /\ Labelled(n) => closed'[n] = closed[n]
          /\ (~Labelled(n) /\ closed'[n] # closed[n]) => closed'[n].tag = "PathFrom"]_vars

\* the search has met a PathFrom node again at a lower cost, and a node with an
\* edge back to the start has been expanded
C11_Witness ==
    /\ result = "FoundHigherCostPath"
    /\ closed[Head(todo)[2]].tag = "PathFrom"
    /\ closed[Head(todo)[2]].cost > Head(todo)[1] + current_cost
    /\ \E n \in Slots :
         closed[n].tag = "PathFrom" /\ \E e \in Range(neighbours[n]) : e[2] = Start

\* C12: a sequence of indices collected into Neighbours is enumerated by
\* get_neighbours as the same indices in the same order, every time it is
\* enumerated; the variant is InPlace if and only if the sequence has at most
\* 3 elements, and Vec otherwise.
C12_NeighboursRoundTrip ==
    IsSome(system.neighbours)
    => /\ Unwrap(system.neighbours).variant = "InPlace" <=> Len(system.values) <= 3
       /\ Unwrap(system.neighbours).variant = "Vec" <=> Len(system.values) > 3
       /\ get_neighbours(system.neighbours) = system.values
       /\ \A e \in Range(system.enumerated) : e.set => e.out = system.values

\* three indices, two of them the same, collected and enumerated twice
C12_Witness ==
    /\ Len(system.values) = 3
    /\ system.values[1] = system.values[3] /\ system.values[1] # system.values[2]
    /\ Len(system.enumerated) = 2
    /\ \A e \in Range(system.enumerated) : e.set

\* C13: a == b holds if and only if cmp(a, b) is Equal, that is if and only if
\* the priorities of a and b are equal, whatever their nodes are.
C13_EqAgreesWithCmp ==
    (IsSome(comparison.eq) /\ IsSome(comparison.cmp))
    => /\ Unwrap(comparison.eq) <=> Unwrap(comparison.cmp) = "Equal"
       /\ Unwrap(comparison.eq) <=> comparison.a.heuristic = comparison.b.heuristic

\* the external ids of the solar systems Map::new has read
SystemIds == { sde.systems[i].id : i \in DOMAIN sde.systems }
Built == map.outcome = "Ok"

\* C14: after a successful construction of N systems the indices are assigned
\* in ascending order of external id and cover exactly 0 .. N-1; for every
\* external id s the compact node and the extended record at
\* get_solarsystem_idx(s) both carry s; every stored neighbour index is in
\* 0 .. N-1.
C14_DenseAlignedIndices ==
    Built
    => LET N == Len(map.solarsystems)
       IN  /\ N = Cardinality(SystemIds)
           /\ DOMAIN map.solarsystem_lookup = SystemIds
           /\ { get_solarsystem_idx(map, id) : id \in SystemIds } = 0 .. (N - 1)
           /\ \A a, b \in SystemIds :
                a < b <=> get_solarsystem_idx(map, a) < get_solarsystem_idx(map, b)
           /\ \A id \in SystemIds :
                /\ get_system(map, get_solarsystem_idx(map, id)).solar_system_id = id
                /\ get_extended_solarsystem_info(map, get_solarsystem_idx(map, id))
                       .solar_system_id = id
           /\ Len(map.solarsystems_ex) = N
           /\ \A i \in 0 .. (N - 1) :
                \A n \in Range(get_neighbours(get_system(map, i).neighbours)) :
                    n \in 0 .. (N - 1)

\* a map of several systems read in an order that is not ascending, with an
\* edge between two of them
C14_Witness ==
    /\ Built
    /\ Len(sde.systems) = MaxSystems
    /\ sde.systems[1].id > sde.systems[2].id
    /\ \E i \in 0 .. (MaxSystems - 1) :
         \E n \in Range(get_neighbours(get_system(map, i).neighbours)) : n # i

\* some stargate of the input has a destination that is no stargate of the input
HasUnresolvedDestination ==
    \E i \in DOMAIN sde.systems : \E k \in DOMAIN sde.systems[i].stargates :
        \A j \in DOMAIN sde.systems : \A l \in DOMAIN sde.systems[j].stargates :
            sde.systems[j].stargates[l].stargate_id
                # sde.systems[i].stargates[k].destination_stargate_id

\* C15: when some stargate names a destination that resolves to no system,
\* construction yields no Map: it ends, if it ends, in an error or a panic.
C15_UnresolvedDestinationNoMap ==
    HasUnresolvedDestination => ~Built

\* construction has stopped at an unresolved destination after the neighbours
\* of another system were set
C15_Witness ==
    /\ HasUnresolvedDestination
    /\ map.outcome = "panic"
    /\ \E i \in DOMAIN map.solarsystems : IsSome(map.solarsystems[i].neighbours)

\* what a search returns and leaves when it runs alone
Alone(h, start, sd, gs) ==
    Run(Seeded(h, start, sd), gs, h, neighbours, (Capacity + 1) * (Capacity + 1))

C17_ReturnsAtFirstGoalPop ==
    /\ [](result = "Ok" => is_goal(goals, Returned))
    /\ []((result # "Ok" /\ IsSome(item)) => ~is_goal(goals, Unwrap(item).node))
    /\ [][(result' = "Ok" /\ result # "Ok")
            => /\ pc = "pop" /\ pc' = "done"
               /\ item' = pop_min(open).item
               /\ open' = pop_min(open).open
               /\ Len(open') = Len(open) - 1
               /\ closed' = closed
               /\ todo' = todo /\ current_cost' = current_cost]_vars

\* success on a goal that is not the start, has neighbours of its own, and
\* was popped while other items were waiting
C17_Witness ==
    /\ Succeeded
    /\ Returned # Start
    /\ neighbours[Returned] # << >>
    /\ open # << >>
    /\ \E n \in Slots : n # Returned /\ closed[n].tag = "PathFrom"

\* C18: from a correctly seeded start, every item of the open list is for a
\* labelled node, and its priority is the cost recorded for that node in the
\* closed store plus the heuristic of the node.
C18_OpenPriorityIsCostPlusHeuristic ==
    seeded
    => \A i \in DOMAIN open :
         /\ Labelled(open[i].node)
         /\ open[i].heuristic = closed[open[i].node].cost + heuristic[open[i].node]

\* two items wait in the open list, one of them for a node reached at a cost
\* above 0 with a heuristic above 0, while the start has a heuristic above 0
C18_Witness ==
    /\ seeded
    /\ heuristic[Start] > 0
    /\ Len(open) >= 2
    /\ \E i \in DOMAIN open :
         /\ closed[open[i].node].tag = "PathFrom"
         /\ closed[open[i].node].cost > 0
         /\ heuristic[open[i].node] > 0

\* the for loop is at a neighbour labelled PathFrom with a cost above the candidate
AtDearerLabel ==
    /\ pc = "for"
    /\ closed[Head(todo)[2]].tag = "PathFrom"
    /\ closed[Head(todo)[2]].cost > Head(todo)[1] + current_cost

\* C19: when expansion finds a neighbour labelled PathFrom(p, existing) with
\* existing above the candidate cost, astar ends with FoundHigherCostPath and
\* relaxes nothing: the closed store and the open list stay as they are.
C19_HigherCostPathIsFatal ==
    [][AtDearerLabel
        => /\ pc' = "done" /\ result' = "FoundHigherCostPath"
           /\ closed' = closed
           /\ open' = open]_vars

\* the search has ended at a dearer label whose node still waits in the open list
C19_Witness ==
    /\ pc = "done" /\ result = "FoundHigherCostPath"
    /\ closed[Head(todo)[2]].cost > Head(todo)[1] + current_cost
    /\ \E i \in DOMAIN open : open[i].node = Head(todo)[2]

\* the for loop is at an edge from the node under expansion to itself
AtSelfLoop ==
    /\ pc = "for"
    /\ Head(todo)[2] = Unwrap(item).node
    /\ Head(todo)[1] >= 0

\* C20: a pass of the for loop over a self-loop edge of non-negative cost
\* leaves the closed store and the open list as they are and does not end the
\* search, whether the node is a StartingPoint or a PathFrom node.
C20_SelfLoopIsSkipped ==
    [][AtSelfLoop
        => /\ closed' = closed
           /\ open' = open
           /\ result' = "Running"
           /\ todo' = Tail(todo)]_vars

\* the for loop has passed a self-loop edge of a PathFrom node and goes on
C20_Witness ==
    /\ result = "Running" /\ pc \in { "pop", "for" }
    /\ IsSome(item)
    /\ closed[Unwrap(item).node].tag = "PathFrom"
    /\ \E k \in DOMAIN neighbours[Unwrap(item).node] :
         /\ neighbours[Unwrap(item).node][k][2] = Unwrap(item).node
         /\ Len(neighbours[Unwrap(item).node]) - Len(todo) >= k

\* C21: astar returns; push_open is called for a node only in the step that
\* changes it from Unvisited to PathFrom, hence at most once for each node; and
\* the while loop is entered at most once for the seeded item and once for
\* each node pushed.
C21_Terminates ==
    /\ <>(pc = "done")
    /\ [](/\ \A n \in Slots : pushed[n] <= 1
          /\ iterations <= 1 + Cardinality({ n \in Slots : pushed[n] = 1 })
          /\ iterations <= 1 + Cardinality(Slots))
    /\ [][pushed' # pushed
            => \E n \in Slots :
                 /\ closed[n].tag = "Unvisited" /\ closed'[n].tag = "PathFrom"
                 /\ pushed' = [pushed EXCEPT ![n] = 1]]_vars

\* a search over a graph with a cycle has returned after it entered the loop
\* for the seeded item and for every other node of the cycle
C21_Witness ==
    /\ pc = "done"
    /\ iterations >= 2
    /\ \E n \in Slots :
         /\ pushed[n] = 1
         /\ Start \in Range(unwind(closed, n).path)
         /\ \E e \in Range(neighbours[n]) :
              e[2] # n /\ e[2] \in Range(unwind(closed, n).path)

\* C22: every node n labelled PathFrom(p, c) has a labelled predecessor p of
\* recorded cost d and an edge (w, n) among the neighbours of p with
\* c = w + d; and c is the summed edge cost along unwind(n) plus the cost the
\* start was seeded with.
C22_RecordedCostIsPathCost ==
    \A n \in Slots :
        closed[n].tag = "PathFrom"
        => /\ Labelled(closed[n].from)
           /\ \E e \in Range(neighbours[closed[n].from]) :
                e[2] = n /\ closed[n].cost = e[1] + closed[closed[n].from].cost
           /\ LET u == unwind(closed, n)
              IN  /\ u.terminates
                  /\ closed[u.path[1]].tag = "StartingPoint"
                  /\ \E x \in CostsAlong(neighbours, u.path) :
                       closed[n].cost = x + closed[u.path[1]].cost

\* a node labelled two edges away from the start, both edges of a cost above 0
C22_Witness ==
    \E n \in Slots :
        /\ closed[n].tag = "PathFrom"
        /\ closed[closed[n].from].tag = "PathFrom"
        /\ closed[closed[n].from].cost > 0
        /\ closed[n].cost > closed[closed[n].from].cost

\* C23: astar ends with PathNotFound only if no node that satisfies the goal
\* predicate is reachable from the start: with a goal reachable, the search
\* ends in success, in FoundHigherCostPath or in OpenItemNotInClosedList.
C23_NotFoundOnlyIfUnreachable ==
    /\ (pc = "done" /\ result = "PathNotFound")
       => \A g \in goals : ~Reachable(neighbours, Start, g)
    /\ (pc = "done" /\ \E g \in goals : Reachable(neighbours, Start, g))
       => result \in { "Ok", "FoundHigherCostPath", "OpenItemNotInClosedList" }

\* PathNotFound after the search has expanded the start and a node with an
\* edge back to it, while the goal has an edge of its own
C23_Witness ==
    /\ pc = "done" /\ result = "PathNotFound"
    /\ iterations >= 2
    /\ \E n \in Slots :
         closed[n].tag = "PathFrom" /\ \E e \in Range(neighbours[n]) : e[2] = Start
    /\ \E g \in goals : neighbours[g] # << >>

\* C24: in the application's search every index at which the closed store is
\* read or written is below its capacity of 9000, for every map of up to 65536
\* systems: no access faults.
C24_IndicesBelowCapacity ==
    result # "IndexOutOfBounds"

====
